---- MODULE Spec2Model ----
(***************************************************************************)
(* A model of the YouTube influencer finder's core: the browser-local     *)
(* store (settings entry and TTL cache entries), the multi-key credential *)
(* pool of SettingsService, and the search of YouTubeService.             *)
(*                                                                         *)
(* Strings are sequences of character codes, so that the cache-key hash,  *)
(* String.includes and String.startsWith are computed as the code         *)
(* computes them.                                                          *)
(***************************************************************************)
EXTENDS Integers, Sequences, FiniteSets, TLC

VARIABLES
  localStorage,   \* window.localStorage: key (string) -> parsed JSON value
  now,            \* Date.now(), in milliseconds since the start of the run
  upstream,       \* the platform's view of each API key: ok / quotaExceeded / keyInvalid /
                  \* unsteady (some queries fail)
  svc,            \* the YouTubeService call in flight (one search at a time)
  last,           \* the last operation performed, with what it saw and returned; the
                  \* arguments drawn for a function applied on its own
  hist            \* history of completed searches (for the cache claims)

vars == <<localStorage, now, upstream, svc, last, hist>>

(***************************************************************************)
(* Bounds of the model                                                     *)
(***************************************************************************)
MaxKeys == 2        \* credentials held by the pool at one time
MaxTicks == 3       \* clock advances in one run
MaxSearches == 2    \* searches started in one run
MaxLen == 3         \* entries of a list handed to a function on its own

(***************************************************************************)
(* Strings                                                                 *)
(***************************************************************************)
Lower == "abcdefghijklmnopqrstuvwxyz"
Upper == "ABCDEFGHIJKLMNOPQRSTUVWXYZ"
Digits == "0123456789"

\* String.prototype.charCodeAt for the characters the model uses
CharCode(c) ==
  IF \E i \in 1..26 : SubSeq(Lower, i, i) = c
    THEN 96 + (CHOOSE i \in 1..26 : SubSeq(Lower, i, i) = c)
  ELSE IF \E i \in 1..26 : SubSeq(Upper, i, i) = c
    THEN 64 + (CHOOSE i \in 1..26 : SubSeq(Upper, i, i) = c)
  ELSE IF \E i \in 1..10 : SubSeq(Digits, i, i) = c
    THEN 47 + (CHOOSE i \in 1..10 : SubSeq(Digits, i, i) = c)
  ELSE IF c = " " THEN 32
  ELSE IF c = "_" THEN 95
  ELSE IF c = "-" THEN 45
  ELSE IF c = "(" THEN 40
  ELSE IF c = ")" THEN 41
  ELSE IF c = "{" THEN 123
  ELSE IF c = "}" THEN 125
  ELSE IF c = "[" THEN 91
  ELSE IF c = "]" THEN 93
  ELSE IF c = ":" THEN 58
  ELSE IF c = "," THEN 44
  ELSE 63

\* a string literal as the sequence of its character codes
S(str) == [i \in 1..Len(str) |-> CharCode(SubSeq(str, i, i))]

DQUOTE == <<34>>

\* String.prototype.toLowerCase
toLowerCase(s) == [i \in 1..Len(s) |-> IF s[i] >= 65 /\ s[i] <= 90 THEN s[i] + 32 ELSE s[i]]

\* String.prototype.startsWith
startsWith(s, p) == Len(p) <= Len(s) /\ SubSeq(s, 1, Len(p)) = p

\* String.prototype.includes
includes(s, p) == \E i \in 1..(Len(s) - Len(p) + 1) : SubSeq(s, i, i + Len(p) - 1) = p

\* String.prototype.substring(a, b) with JavaScript's 0-based, clamped arguments
\* (a negative or NaN argument is treated as 0)
substring(s, a, b) ==
  LET lo == IF a < 0 THEN 0 ELSE IF a > Len(s) THEN Len(s) ELSE a
      hi == IF b < 0 THEN 0 ELSE IF b > Len(s) THEN Len(s) ELSE b
  IN  IF lo <= hi THEN SubSeq(s, lo + 1, hi) ELSE SubSeq(s, hi + 1, lo)

\* Array.prototype.join over strings
RECURSIVE join(_, _)
join(ss, sep) ==
  IF ss = <<>> THEN <<>>
  ELSE IF Len(ss) = 1 THEN ss[1]
  ELSE ss[1] \o sep \o join(Tail(ss), sep)

\* String.prototype.split on a one-character separator
RECURSIVE split(_, _)
split(s, sep) ==
  IF \A i \in 1..Len(s) : s[i] # sep THEN <<s>>
  ELSE LET at == CHOOSE i \in 1..Len(s) : s[i] = sep /\ \A j \in 1..(i - 1) : s[j] # sep
       IN  <<SubSeq(s, 1, at - 1)>> \o split(SubSeq(s, at + 1, Len(s)), sep)

\* String.prototype.split on a regular expression [...]+ over the characters
\* seps, without the empty strings it yields at the two ends: the maximal runs
\* of other characters
RECURSIVE splitRuns(_, _)
splitRuns(s, seps) ==
  IF s = <<>> THEN <<>>
  ELSE IF s[1] \in seps THEN splitRuns(Tail(s), seps)
  ELSE LET end == CHOOSE i \in 1..Len(s) :
                    /\ \A j \in 1..i : s[j] \notin seps
                    /\ i = Len(s) \/ s[i + 1] \in seps
       IN  <<SubSeq(s, 1, end)>> \o splitRuns(SubSeq(s, end + 1, Len(s)), seps)

\* JSON.stringify of a string whose characters need no escaping
Quote(s) == DQUOTE \o s \o DQUOTE

(***************************************************************************)
(* SettingsService (multi-key settings)                                    *)
(***************************************************************************)
\* the prefixes of the cache keys
SEARCH_PREFIX == S("search_")
KEYWORDS_PREFIX == S("keywords_")
OPENAI_PREFIX == S("openai_")
YOUTUBE_PREFIX == S("youtube_")

STORAGE_KEY == S("youtube_influencer_finder_settings")

QUOTA_LIMIT == 10000

NoError == "undefined"
NoTime == 0 - 1

\* import.meta.env.VITE_YOUTUBE_API_KEY: not set in this build
VITE_YOUTUBE_API_KEY == <<>>

\* the settings returned when the store holds none
defaultSettings ==
  [youtubeApiKeys |->
     IF VITE_YOUTUBE_API_KEY # <<>>
       THEN << [id |-> "default-key", key |-> VITE_YOUTUBE_API_KEY, status |-> "active",
                quotaUsed |-> 0, quotaLimit |-> QUOTA_LIMIT,
                lastError |-> NoError, lastUsed |-> NoTime] >>
       ELSE <<>>,
   currentKeyIndex |-> 0]

\* SettingsService.getSettings
getSettings(ls) ==
  IF STORAGE_KEY \in DOMAIN ls THEN ls[STORAGE_KEY] ELSE defaultSettings

\* localStorage.removeItem over a set of keys
removeItems(ls, keys) == [k \in (DOMAIN ls) \ keys |-> ls[k]]

\* localStorage.setItem
setItem(ls, key, value) == [k \in (DOMAIN ls) \cup {key} |-> IF k = key THEN value ELSE ls[k]]

\* SettingsService.clearRelatedCache
clearRelatedCache(ls) ==
  removeItems(ls, {k \in DOMAIN ls :
      /\ k # STORAGE_KEY
      /\ \/ startsWith(k, SEARCH_PREFIX)
         \/ startsWith(k, KEYWORDS_PREFIX)
         \/ startsWith(k, OPENAI_PREFIX)
         \/ startsWith(k, YOUTUBE_PREFIX)})

\* SettingsService.forceClearAllCache
forceClearAllCache(ls) == removeItems(ls, {k \in DOMAIN ls : k # STORAGE_KEY})

keysOf(settings) == [i \in 1..Len(settings.youtubeApiKeys) |-> settings.youtubeApiKeys[i].key]

\* SettingsService.saveSettings
saveSettings(ls, settings) ==
  LET previousSettings == getSettings(ls)
      saved == setItem(ls, STORAGE_KEY, settings)
  IN  IF keysOf(previousSettings) # keysOf(settings)
        THEN clearRelatedCache(saved)
        ELSE saved

\* the value null / undefined of a missing credential
NoKey == <<>>

\* SettingsService.getCurrentYouTubeApiKey
getCurrentYouTubeApiKey(ls) ==
  LET settings == getSettings(ls)
      i == settings.currentKeyIndex + 1
  IN  IF i \in 1..Len(settings.youtubeApiKeys) /\ settings.youtubeApiKeys[i].status = "active"
        THEN settings.youtubeApiKeys[i].key
        ELSE NoKey

\* SettingsService.hasRequiredKeys
hasRequiredKeys(ls) ==
  \E i \in 1..Len(getSettings(ls).youtubeApiKeys) : getSettings(ls).youtubeApiKeys[i].status = "active"

\* SettingsService.addYouTubeApiKey
addYouTubeApiKey(ls, id, key) ==
  LET settings == getSettings(ls)
      newKey == [id |-> id, key |-> key, status |-> "active", quotaUsed |-> 0,
                 quotaLimit |-> QUOTA_LIMIT, lastError |-> NoError, lastUsed |-> NoTime]
  IN  saveSettings(ls, [settings EXCEPT !.youtubeApiKeys = Append(@, newKey)])

\* Array.prototype.findIndex(k => k.id === keyId), 1-based; 0 when there is none
findIndex(keys, keyId) ==
  IF \E i \in 1..Len(keys) : keys[i].id = keyId
    THEN CHOOSE i \in 1..Len(keys) :
           keys[i].id = keyId /\ \A j \in 1..(i - 1) : keys[j].id # keyId
    ELSE 0

\* a splice that drops the last element whatever the index
spliceLast(seq, i) == SubSeq(seq, 1, Len(seq) - 1)

\* Array.prototype.splice(i, 1)
splice(seq, i) == SubSeq(seq, 1, i - 1) \o SubSeq(seq, i + 1, Len(seq))

\* removeYouTubeApiKey without the adjustment of the current index
removeKeepingIndex(ls, keyId) ==
  LET settings == getSettings(ls)
      keyIndex == findIndex(settings.youtubeApiKeys, keyId)
  IN  IF keyIndex >= 1
        THEN saveSettings(ls, [settings EXCEPT !.youtubeApiKeys = splice(@, keyIndex)])
        ELSE ls

\* SettingsService.removeYouTubeApiKey
removeYouTubeApiKey(ls, keyId) ==
  LET settings == getSettings(ls)
      keyIndex == findIndex(settings.youtubeApiKeys, keyId) - 1
      rest == splice(settings.youtubeApiKeys, keyIndex + 1)
      c1 == IF settings.currentKeyIndex >= keyIndex /\ settings.currentKeyIndex > 0
              THEN settings.currentKeyIndex - 1 ELSE settings.currentKeyIndex
      c2 == IF c1 >= Len(rest)
              THEN (IF Len(rest) - 1 > 0 THEN Len(rest) - 1 ELSE 0) ELSE c1
  IN  IF keyIndex >= 0
        THEN saveSettings(ls, [youtubeApiKeys |-> rest, currentKeyIndex |-> c2])
        ELSE ls

\* the number of credentials with status active
activeCount(keys) == Cardinality({i \in 1..Len(keys) : keys[i].status = "active"})

\* the guard of switchToNextKey: no alternative when at most one key is active
noAlternative(keys) == activeCount(keys) <= 1

\* SettingsService.switchToNextKey: <<returned value, store afterwards>>
switchToNextKey(ls) ==
  LET settings == getSettings(ls)
      keys == settings.youtubeApiKeys
      n == Len(keys)
      \* the index probed at attempt a (0-based attempts, 0-based index)
      probe(a) == (settings.currentKeyIndex + 1 + a) % n
      hits == {a \in 0..(n - 1) : keys[probe(a) + 1].status = "active"}
  IN  IF noAlternative(keys) THEN <<FALSE, ls>>
      ELSE IF hits = {} THEN <<FALSE, ls>>
      ELSE LET a == CHOOSE a \in hits : \A b \in hits : a <= b
           IN  <<TRUE, saveSettings(ls, [settings EXCEPT !.currentKeyIndex = probe(a)])>>

\* a recorded failure that makes the key usable again
failureReactivates(error) == "active"

\* the status markKeyAsExhausted gives a key, whatever the error was
failureStatus(error) == "exhausted"

\* SettingsService.markKeyAsExhausted
markKeyAsExhausted(ls, keyId, error) ==
  LET settings == getSettings(ls)
      i == findIndex(settings.youtubeApiKeys, keyId)
  IN  IF i > 0
        THEN saveSettings(ls, [settings EXCEPT
               !.youtubeApiKeys[i].status = failureStatus(error),
               !.youtubeApiKeys[i].lastError = error,
               !.youtubeApiKeys[i].lastUsed = now])
        ELSE ls

\* a strict comparison in place of >=
nearQuotaStrict(quotaUsed, quotaLimit) == quotaUsed * 100 > quotaLimit * 95

\* quotaUsed >= key.quotaLimit * 0.95
nearQuota(quotaUsed, quotaLimit) == quotaUsed * 100 >= quotaLimit * 95

\* adding the argument to the stored value instead of storing it
usageAfterAdding(previous, quotaUsed) == previous + quotaUsed

\* the quotaUsed that updateKeyUsage stores, given the stored value and the argument
usageAfter(previous, quotaUsed) == quotaUsed

\* SettingsService.updateKeyUsage
updateKeyUsage(ls, keyId, quotaUsed) ==
  LET settings == getSettings(ls)
      i == findIndex(settings.youtubeApiKeys, keyId)
      key == settings.youtubeApiKeys[i]
      used == usageAfter(key.quotaUsed, quotaUsed)
  IN  IF i > 0
        THEN saveSettings(ls, [settings EXCEPT
               !.youtubeApiKeys[i].quotaUsed = used,
               !.youtubeApiKeys[i].lastUsed = now,
               !.youtubeApiKeys[i].status =
                  IF nearQuota(quotaUsed, key.quotaLimit) THEN "exhausted" ELSE @])
        ELSE ls

(***************************************************************************)
(* YouTubeService: cache key, cache read and write                         *)
(***************************************************************************)
CACHE_TTL_MS == 1800000    \* 30 * 60 * 1000

\* 32-bit integers are kept as two 16-bit limbs <<high, low>>
Limb == 256 * 256

\* hash = ((hash << 5) - hash) + char; hash = hash & hash
hashStep(h, char) ==
  LET lo == h[2] * 31 + char
      hi == h[1] * 31 + (lo \div Limb)
  IN  <<hi % Limb, lo % Limb>>

\* the loop over the characters from..to of str, started with hash h
hashChars(h, str, from, to) ==
  LET hashAt[i \in (from - 1)..to] ==
        IF i = from - 1 THEN h
        ELSE CHOOSE next \in {hashStep(prev, str[i]) : prev \in {hashAt[i - 1]}} : TRUE
  IN  hashAt[to]

\* the loop over the whole string, evaluated in runs of HashRun characters
HashRun == 4 * 4
hashFrom(h, str) ==
  LET runs == (Len(str) + HashRun - 1) \div HashRun
      end(r) == IF r * HashRun < Len(str) THEN r * HashRun ELSE Len(str)
      hashAfter[r \in 0..runs] ==
        IF r = 0 THEN h
        ELSE CHOOSE next \in {hashChars(prev, str, (r - 1) * HashRun + 1, end(r)) :
                               prev \in {hashAfter[r - 1]}} : TRUE
  IN  hashAfter[runs]

\* Math.abs of the signed 32-bit value held in the limbs
abs32(h) ==
  IF h[1] < Limb \div 2 THEN h
  ELSE << (Limb - 1 - h[1] + (IF h[2] = 0 THEN 1 ELSE 0)) % Limb, (Limb - h[2]) % Limb >>

digit36(d) == IF d < 10 THEN 48 + d ELSE 87 + d

\* Number.prototype.toString(36) of a non-negative value held in the limbs
RECURSIVE toString36(_)
toString36(h) ==
  LET qh == h[1] \div 36
      t == (h[1] % 36) * Limb + h[2]
      q == <<qh, t \div 36>>
      r == t % 36
  IN  IF q = <<0, 0>> THEN <<digit36(r)>> ELSE toString36(q) \o <<digit36(r)>>

\* JSON.stringify of a non-negative integer
RECURSIVE toString10(_)
toString10(n) ==
  IF n < 10 THEN <<48 + n>> ELSE toString10(n \div 10) \o <<48 + (n % 10)>>

\* JSON.stringify(filters, propertyList): only the properties named in the
\* list are written
stringifyFilters(filters, propertyList) ==
  LET fields == << <<"region", Quote(filters.region)>>,
                   <<"minSubscribers", toString10(filters.minSubscribers)>>,
                   <<"minViews", toString10(filters.minViews)>>,
                   <<"maxResults", toString10(filters.maxResults)>> >>
      kept == SelectSeq(fields, LAMBDA f : \E i \in 1..Len(propertyList) : propertyList[i] = f[1])
  IN  S("{") \o join([i \in 1..Len(kept) |-> Quote(S(kept[i][1])) \o S(":") \o kept[i][2]], S(","))
             \o S("}")

\* JSON.stringify(keywords): array elements are written whatever the list names
stringifyKeywords(keywords) ==
  S("[") \o join([i \in 1..Len(keywords) |-> Quote(keywords[i])], S(",")) \o S("]")

\* Object.keys({keywords, filters, apiKeyHash}).sort()
paramsPropertyList == <<"apiKeyHash", "filters", "keywords">>

\* JSON.stringify(params, Object.keys(params).sort()): the properties in the
\* order of the list, the list applied to nested objects as well
stringifyParams(keywords, filters, apiKeyHash) ==
  S("{") \o Quote(S("apiKeyHash")) \o S(":") \o Quote(apiKeyHash) \o S(",")
         \o Quote(S("filters")) \o S(":") \o stringifyFilters(filters, paramsPropertyList) \o S(",")
         \o Quote(S("keywords")) \o S(":") \o stringifyKeywords(keywords)
         \o S("}")

\* YouTubeService.generateCacheKey
generateCacheKey(prefix, keywords, filters, apiKeyHash) ==
  prefix \o S("_")
         \o toString36(abs32(hashFrom(<<0, 0>>, stringifyParams(keywords, filters, apiKeyHash))))

\* YouTubeService.getApiKeyHash: substring(0, 8), "_", substring(-4)
getApiKeyHash(apiKey) ==
  substring(apiKey, 0, 8) \o S("_") \o substring(apiKey, 0 - 4, Len(apiKey))

\* the value getFromCache returns on a miss
CacheMiss == [miss |-> TRUE]

\* getFromCache leaving an expired entry in the store
getFromCacheKeepingExpired(ls, key) ==
  IF key \notin DOMAIN ls \/ now > ls[key].expiry THEN <<CacheMiss, ls>> ELSE <<ls[key], ls>>

\* YouTubeService.getFromCache: <<returned value, store afterwards>>
getFromCache(ls, key) ==
  IF key \notin DOMAIN ls THEN <<CacheMiss, ls>>
  ELSE IF now > ls[key].expiry THEN <<CacheMiss, removeItems(ls, {key})>>
  ELSE <<ls[key], ls>>

\* setCache with the lifetime taken for seconds
setCacheInSeconds(ls, key, data, ttlMs) ==
  setItem(ls, key, [data |-> data, expiry |-> now + ttlMs \div 1000])

\* YouTubeService.setCache
setCache(ls, key, data, ttlMs) ==
  setItem(ls, key, [data |-> data, expiry |-> now + ttlMs])

(***************************************************************************)
(* Array.prototype.sort as the browser's engine (V8) runs it on arrays     *)
(* shorter than 64 elements: the leading run is found (and reversed when   *)
(* strictly descending), the rest is inserted by binary insertion.         *)
(***************************************************************************)
abs(n) == IF n < 0 THEN 0 - n ELSE n

\* the comparison functions handed to sort
compare(comparefn, a, b) ==
  IF comparefn = "influencers"
    THEN LET relevanceDiff == b.relevanceScore - a.relevanceScore
         IN  IF abs(relevanceDiff) < 5 THEN b.subscriberCount - a.subscriberCount
             ELSE relevanceDiff
  ELSE IF comparefn = "videos"
    THEN LET relevanceDiff == b.relevanceScore - a.relevanceScore
         IN  IF abs(relevanceDiff) < 5 THEN b.viewCount - a.viewCount
             ELSE relevanceDiff
  ELSE b.score - a.score

reverse(arr) == [i \in 1..Len(arr) |-> arr[Len(arr) + 1 - i]]

\* the run at the start of arr continues at position idx
runContinues(comparefn, arr, idx, isDescending) ==
  IF isDescending THEN compare(comparefn, arr[idx], arr[idx - 1]) < 0
  ELSE compare(comparefn, arr[idx], arr[idx - 1]) >= 0

\* CountAndMakeRun: the length of the leading run of an array of two or more
countRun(comparefn, arr) ==
  LET isDescending == compare(comparefn, arr[2], arr[1]) < 0
  IN  CHOOSE runLength \in 2..Len(arr) :
        /\ \A idx \in 3..runLength : runContinues(comparefn, arr, idx, isDescending)
        /\ runLength = Len(arr) \/ ~runContinues(comparefn, arr, runLength + 1, isDescending)

makeRun(comparefn, arr) ==
  LET runLength == countRun(comparefn, arr)
  IN  IF compare(comparefn, arr[2], arr[1]) < 0
        THEN reverse(SubSeq(arr, 1, runLength)) \o SubSeq(arr, runLength + 1, Len(arr))
        ELSE arr

\* the binary search of BinaryInsertionSort: where pivot goes in arr[left..right-1]
RECURSIVE insertionPoint(_, _, _, _, _)
insertionPoint(comparefn, arr, pivot, left, right) ==
  IF left >= right THEN left
  ELSE LET mid == left + ((right - left) \div 2)
       IN  IF compare(comparefn, pivot, arr[mid]) < 0
             THEN insertionPoint(comparefn, arr, pivot, left, mid)
             ELSE insertionPoint(comparefn, arr, pivot, mid + 1, right)

RECURSIVE binaryInsertionSort(_, _, _)
binaryInsertionSort(comparefn, arr, start) ==
  IF start > Len(arr) THEN arr
  ELSE LET pivot == arr[start]
           left == insertionPoint(comparefn, arr, pivot, 1, start)
       IN  binaryInsertionSort(comparefn,
             SubSeq(arr, 1, left - 1) \o <<pivot>> \o SubSeq(arr, left, start - 1)
               \o SubSeq(arr, start + 1, Len(arr)),
             start + 1)

sort(arr, comparefn) ==
  IF Len(arr) < 2 THEN arr
  ELSE binaryInsertionSort(comparefn, makeRun(comparefn, arr), countRun(comparefn, arr) + 1)

\* Array.prototype.slice(0, n)
slice(arr, n) == SubSeq(arr, 1, IF n < Len(arr) THEN n ELSE Len(arr))

\* [...new Set(arr)]: the first occurrence of each element, in order
unique(arr) ==
  LET firsts == SelectSeq([i \in 1..Len(arr) |-> <<i, arr[i]>>],
                          LAMBDA p : \A j \in 1..(p[1] - 1) : arr[j] # p[2])
  IN  [k \in 1..Len(firsts) |-> firsts[k][2]]

\* a limit that is not applied
withoutLimit(a, b) == b

\* Math.min
min(a, b) == IF a < b THEN a ELSE b

(***************************************************************************)
(* The platform (YouTube Data API) as the searches see it                  *)
(***************************************************************************)
\* the channels the platform knows; recentVideos is what getTopViewedVideos
\* yields for the channel (the videos the platform lists for it that pass the
\* title-relevance filter, best first)
Catalogue ==
  [UCa |-> [title |-> S("Acme Labs"), description |-> S("acme gadget reviews"),
            subscriberCount |-> 150000,
            recentVideos |-> << [videoId |-> "va1", title |-> S("Acme review"), viewCount |-> 50000] >>],
   UCb |-> [title |-> S("Gadget Hub"), description |-> S("all about gadgets"),
            subscriberCount |-> 5000,
            recentVideos |-> <<>>],
   UCc |-> [title |-> S("tiny acme fan"), description |-> S(""),
            subscriberCount |-> 50,
            recentVideos |-> <<>>],
   UCd |-> [title |-> S("Influencer Tips"), description |-> S("how to grow"),
            subscriberCount |-> 2000000,
            recentVideos |-> << [videoId |-> "vd1", title |-> S("influencer basics"), viewCount |-> 8000] >>]]

\* the channel of each video the platform finds for a query, best match first
PlatformIndex ==
  (S("acme") :> <<"UCa", "UCa", "UCb", "UCc">>)
  @@ (S("acme review") :> <<"UCb", "UCa">>)
  @@ (S("influencer") :> <<"UCd">>)

\* search.list: the channel of each video item the platform returns for q
platformSearch(q, regionCode) ==
  IF q \in DOMAIN PlatformIndex THEN PlatformIndex[q] ELSE <<>>

(***************************************************************************)
(* YouTubeService: scoring and one keyword search                          *)
(***************************************************************************)
\* YouTubeService.getTopViewedVideos
getTopViewedVideos(channelId, searchKeyword, maxResults) ==
  slice(Catalogue[channelId].recentVideos, maxResults)

\* YouTubeService.calculateRelevanceScore; the score before rounding is the
\* fraction numerator / denominator
calculateRelevanceScore(channelTitle, channelDescription, searchKeyword, subscriberCount, recentVideos, originalTopic) ==
  LET titleLower == toLowerCase(channelTitle)
      keywordLower == toLowerCase(searchKeyword)
      descriptionLower == toLowerCase(channelDescription)
      keywordWords == split(keywordLower, 32)
      n == Len(keywordWords)
      titleScore ==        \* times n
        IF includes(titleLower, keywordLower) THEN 30 * n
        ELSE Len(SelectSeq(keywordWords, LAMBDA word : includes(titleLower, word))) * 20
      descriptionScore ==  \* times n
        IF includes(descriptionLower, keywordLower) THEN 20 * n
        ELSE Len(SelectSeq(keywordWords, LAMBDA word : includes(descriptionLower, word))) * 15
      videoRelevance ==
        8 * Len(SelectSeq(recentVideos, LAMBDA video : includes(toLowerCase(video.title), keywordLower)))
      subscriberBonus ==
        IF subscriberCount > 1000000 THEN 25
        ELSE IF subscriberCount > 100000 THEN 20
        ELSE IF subscriberCount > 10000 THEN 15
        ELSE IF subscriberCount > 1000 THEN 10
        ELSE 5
      hasTopic == originalTopic # <<>>
      originalTopicLower == toLowerCase(originalTopic)
      originalWords == SelectSeq(split(originalTopicLower, 32), LAMBDA word : Len(word) > 2)
      k == IF Len(originalWords) = 0 THEN 1 ELSE Len(originalWords)
      wordMatches == Len(SelectSeq(originalWords, LAMBDA word : includes(titleLower, word)))
      topicScore ==        \* times k
        IF ~hasTopic THEN 0
        ELSE IF includes(titleLower, originalTopicLower) THEN 20 * k
        ELSE IF wordMatches > 0 THEN min(15 * k, wordMatches * 15)
        ELSE 0
      videoTopicMatches ==
        Len(SelectSeq(recentVideos, LAMBDA video : includes(toLowerCase(video.title), originalTopicLower)))
      videoBonus == IF hasTopic /\ videoTopicMatches > 0 THEN min(10, videoTopicMatches * 3) ELSE 0
      denominator == n * k
      numerator == (titleScore + descriptionScore) * k + topicScore * n
                     + (min(25, videoRelevance) + subscriberBonus + videoBonus) * denominator
      \* Math.round
      rounded == (2 * numerator + denominator) \div (2 * denominator)
  IN  min(120, rounded)

\* what processChannel returns for a channel it skips
NullChannel == [channelId |-> "null"]

\* YouTubeService.processChannel
processChannel(channelId, searchKeyword, originalTopic) ==
  LET channel == Catalogue[channelId]
      recentVideos == getTopViewedVideos(channelId, searchKeyword, 3)
  IN  IF channel.subscriberCount < 100 THEN NullChannel
      ELSE [channelId |-> channelId,
            subscriberCount |-> channel.subscriberCount,
            recentVideos |-> recentVideos,
            relevanceScore |-> calculateRelevanceScore(channel.title, channel.description,
                                 searchKeyword, channel.subscriberCount, recentVideos, originalTopic)]

\* the queries the platform fails to answer when it is unsteady (a network
\* error or a 5xx answer): the plain keyword of a search
UnsteadyQueries == {S("acme"), S("influencer")}

\* the platform rejects every request made with a key it does not accept, and
\* when it is unsteady it fails the requests for some queries
requestFails(apiKey, q) ==
  IF upstream[apiKey] = "unsteady" THEN q \in UnsteadyQueries ELSE upstream[apiKey] # "ok"

\* the maxResults parameter of the search.list request of searchByKeyword
requestedResults(maxResults) == maxResults * 2

\* YouTubeService.searchByKeyword when its requests are answered
channelsFound(keyword, region, maxResults, originalTopic) ==
  LET items == slice(platformSearch(keyword, region), requestedResults(maxResults))
      channelIds == unique(items)
      processed == [i \in 1..Len(slice(channelIds, maxResults)) |->
                      processChannel(channelIds[i], keyword, originalTopic)]
  IN  SelectSeq(processed, LAMBDA channelData : channelData # NullChannel)

(***************************************************************************)
(* YouTubeService: video mode, scoring and one keyword search              *)
(***************************************************************************)
\* the videos the platform knows (videos.list)
VideoCatalogue ==
  [va1 |-> [title |-> S("Acme review"), channelId |-> "UCa", viewCount |-> 50000],
   va2 |-> [title |-> S("gadget test"), channelId |-> "UCb", viewCount |-> 20000],
   va3 |-> [title |-> S("acme-fan vlog"), channelId |-> "UCc", viewCount |-> 500],
   va4 |-> [title |-> S("Acme (reupload)"), channelId |-> "UCx", viewCount |-> 90000]]

\* the videos the platform finds for a query, best match first (search.list
\* with type video)
PlatformVideoIndex ==
  (S("acme") :> <<"va1", "va2", "va3", "va4">>)
  @@ (S("acme review") :> <<"va2", "va1">>)

platformVideoSearch(q, regionCode) ==
  IF q \in DOMAIN PlatformVideoIndex THEN PlatformVideoIndex[q] ELSE <<>>

\* the characters the title is split on: white space, - _ ( ) [ ]
TitleSeparators == {32, 9, 10, 13, 45, 95, 40, 41, 91, 93}

\* the words that mark a review or related video
relevantWords ==
  << S("review"), S("test"), S("unboxing"), S("setup"), S("comparison"), S("vs"),
     S("tutorial"), S("guide"), S("hands-on"), S("first look"), S("impressions") >>

\* YouTubeService.calculateVideoRelevanceScore: the score is the fraction
\* num / den
calculateVideoRelevanceScore(videoTitle, searchKeyword) ==
  LET titleLower == toLowerCase(videoTitle)
      keywordLower == toLowerCase(searchKeyword)
      keywordWords == SelectSeq(split(keywordLower, 32), LAMBDA word : Len(word) > 2)
      titleWords == SelectSeq(splitRuns(titleLower, TitleSeparators), LAMBDA word : Len(word) > 1)
      pairs == {<<k, t>> : k \in 1..Len(keywordWords), t \in 1..Len(titleWords)}
      exactMatchCount == Cardinality({p \in pairs : titleWords[p[2]] = keywordWords[p[1]]})
      partialMatchCount ==
        Cardinality({p \in pairs :
          /\ titleWords[p[2]] # keywordWords[p[1]]
          /\ \/ includes(titleWords[p[2]], keywordWords[p[1]])
             \/ includes(keywordWords[p[1]], titleWords[p[2]])})
      n == IF Len(keywordWords) > 1 THEN Len(keywordWords) ELSE 1
      hasRelevantWords == \E i \in 1..Len(relevantWords) : includes(titleLower, relevantWords[i])
      titleStart == substring(titleLower, 0, min(50, Len(titleLower)))
      startsWithWord == \E i \in 1..Len(keywordWords) : includes(titleStart, keywordWords[i])
      \* times 100 * n
      score == 80 * exactMatchCount + 30 * partialMatchCount
                 + (IF hasRelevantWords THEN 15 * n ELSE 0)
                 + (IF startsWithWord THEN 10 * n ELSE 0)
  IN  IF includes(titleLower, keywordLower) THEN [num |-> 1, den |-> 1]
      ELSE [num |-> min(100 * n, score), den |-> 100 * n]

\* what processVideoData returns for a video it skips
NullVideo == [videoId |-> "null"]

\* YouTubeService.processVideoData; Math.round(relevanceScore * 100)
processVideoData(videoId, searchKeyword, originalTopic) ==
  LET video == VideoCatalogue[videoId]
      relevanceScore == calculateVideoRelevanceScore(video.title, searchKeyword)
  IN  IF video.channelId \notin DOMAIN Catalogue THEN NullVideo
      ELSE [videoId |-> videoId,
            viewCount |-> video.viewCount,
            channelId |-> video.channelId,
            relevanceScore |-> (2 * 100 * relevanceScore.num + relevanceScore.den)
                                 \div (2 * relevanceScore.den)]

\* YouTubeService.searchVideosByKeyword when its requests are answered
videosFound(keyword, region, maxResults, originalTopic) ==
  LET videoIds == slice(platformVideoSearch(keyword, region), maxResults)
      processed == [i \in 1..Len(videoIds) |-> processVideoData(videoIds[i], keyword, originalTopic)]
  IN  SelectSeq(processed, LAMBDA videoData : videoData # NullVideo)

(***************************************************************************)
(* Inputs                                                                  *)
(***************************************************************************)
\* the API key secrets a user may enter (the same secret may be entered twice)
KeySecrets == {S("AIzaSyA1x"), S("AIzaSyA1y")}

\* the secret entered when the pool is exercised on its own
PoolSecrets == {S("AIzaSyA1x")}

\* the classified upstream failures handed to markKeyAsExhausted
FailureClasses == {"QuotaExceeded", "InvalidCredential"}

\* the usage figures handed to updateKeyUsage: none, just below and at 95% of the limit
QuotaInputs == {0, (QUOTA_LIMIT * 95) \div 100 - 1, (QUOTA_LIMIT * 95) \div 100}

\* the ids of the stored credentials, and one id that is not stored
storedIds(ls) == {getSettings(ls).youtubeApiKeys[i].id : i \in 1..Len(getSettings(ls).youtubeApiKeys)}
idInputs(ls) == storedIds(ls) \cup {0}

NoCall == [pc |-> "idle"]

\* where a call is while its requests are out, and once it has returned
InFlight == {"requesting", "requestingVideos"}
Returned == {"returned", "returnedVideos"}

\* what a search returned is with its caller once anything else happens
settled(call) == IF call.pc \in Returned THEN NoCall ELSE call

\* the id addYouTubeApiKey generates (key-<time>-<random>): one no stored key has
freshId(ls) == CHOOSE n \in 1..(Cardinality(storedIds(ls)) + 1) :
                 n \notin storedIds(ls) /\ \A m \in 1..(n - 1) : m \in storedIds(ls)

NoOp == [op |-> "none", ret |-> FALSE]

\* no search has been made
NoHistory == [stored |-> <<>>, searches |-> 0]

\* the topics a user may search for
Topics == {S("acme"), S("influencer")}

\* the filters of the search form: its defaults, and a stricter choice
DefaultFilters == [region |-> S("US"), minSubscribers |-> 1000, minViews |-> 10000, maxResults |-> 50]
StrictFilters == [region |-> S("US"), minSubscribers |-> 100000, minViews |-> 10000, maxResults |-> 1]
FilterSets == {DefaultFilters, StrictFilters}

\* what the platform makes of the keys: every request with a key it does not
\* accept is rejected (403 quotaExceeded, 403 keyInvalid)
Worlds ==
  { [k \in KeySecrets |-> IF k = S("AIzaSyA1x") THEN "quotaExceeded" ELSE "ok"] }

\* the clock advances in steps of half the cache lifetime
TickMs == CACHE_TTL_MS \div 2

(***************************************************************************)
(* YouTubeService.searchInfluencers, piece by piece                        *)
(***************************************************************************)
\* the keywords left in the order they came in
keepKeywordOrder(keywords, originalTopic) == keywords

\* YouTubeService.prioritizeKeywords
prioritizeKeywords(keywords, originalTopic) ==
  IF originalTopic = <<>> THEN keywords
  ELSE LET topicLower == toLowerCase(originalTopic)
           topicWords == SelectSeq(split(topicLower, 32), LAMBDA word : Len(word) > 2)
           scoreOf(keyword) ==
             (IF includes(toLowerCase(keyword), topicLower) THEN 100 ELSE 0)
             + 20 * Len(SelectSeq(topicWords, LAMBDA word : includes(toLowerCase(keyword), word)))
             + (IF startsWith(toLowerCase(keyword), topicLower) THEN 50 ELSE 0)
           keywordScores == [i \in 1..Len(keywords) |->
                               [keyword |-> keywords[i], score |-> scoreOf(keywords[i])]]
           sortedKeywords == sort(keywordScores, "keywordScores")
       IN  [i \in 1..Len(sortedKeywords) |-> sortedKeywords[i].keyword]

\* the search queries made for one keyword
searchModeSuffixes == << S(""), S(" review"), S(" unboxing"), S(" test"), S(" hands on") >>
searchModes(keyword) == [i \in 1..Len(searchModeSuffixes) |-> keyword \o searchModeSuffixes[i]]

\* the merge as an array that every found channel is pushed to
mergeChannelsAppending(allChannels, channels) == allChannels \o channels

\* channels.forEach(...) on the allChannels map (kept in insertion order)
RECURSIVE mergeChannels(_, _)
mergeChannels(allChannels, channels) ==
  IF channels = <<>> THEN allChannels
  ELSE LET channel == Head(channels)
           has == \E i \in 1..Len(allChannels) : allChannels[i].channelId = channel.channelId
           merged ==
             IF ~has THEN Append(allChannels, channel)
             ELSE [i \in 1..Len(allChannels) |->
                     IF allChannels[i].channelId = channel.channelId
                       THEN [allChannels[i] EXCEPT !.relevanceScore = min(100, @ + 15)]
                       ELSE allChannels[i]]
       IN  mergeChannels(merged, Tail(channels))

\* channelsFound for the searches the model makes, computed once
knownChannelsFound ==
  [args \in {<<searchModes(topic)[i], filters.region, min(10, filters.maxResults), topic>> :
               topic \in Topics, filters \in FilterSets, i \in 1..Len(searchModeSuffixes)} |->
     channelsFound(args[1], args[2], args[3], args[4])]

\* YouTubeService.searchByKeyword: a rejected request is thrown inside the
\* try block and the catch block returns the empty list
searchByKeyword(apiKey, keyword, region, maxResults, originalTopic) ==
  IF requestFails(apiKey, keyword) THEN <<>>
  ELSE IF <<keyword, region, maxResults, originalTopic>> \in DOMAIN knownChannelsFound
    THEN knownChannelsFound[<<keyword, region, maxResults, originalTopic>>]
  ELSE channelsFound(keyword, region, maxResults, originalTopic)

\* the loop ended by the first query that fails
RECURSIVE searchLoopAborting(_, _, _, _, _, _)
searchLoopAborting(apiKey, queries, region, maxResults, originalTopic, allChannels) ==
  IF queries = <<>> \/ requestFails(apiKey, Head(queries)) THEN allChannels
  ELSE searchLoopAborting(apiKey, Tail(queries), region, maxResults, originalTopic,
                          mergeChannels(allChannels,
                            searchByKeyword(apiKey, Head(queries), region, maxResults,
                                            originalTopic)))

\* the loop over the search queries: each searchByKeyword merged in turn
RECURSIVE searchLoop(_, _, _, _, _, _)
searchLoop(apiKey, queries, region, maxResults, originalTopic, allChannels) ==
  IF queries = <<>> THEN allChannels
  ELSE searchLoop(apiKey, Tail(queries), region, maxResults, originalTopic,
                  mergeChannels(allChannels,
                    searchByKeyword(apiKey, Head(queries), region, maxResults, originalTopic)))

\* the filter, the sort and the slice applied to the merged channels
rankInfluencers(allChannels, minSubscribers, minViews, maxResults) ==
  LET kept == SelectSeq(allChannels, LAMBDA channel :
                /\ channel.subscriberCount >= minSubscribers
                /\ \/ Len(channel.recentVideos) = 0
                   \/ \E i \in 1..Len(channel.recentVideos) :
                        channel.recentVideos[i].viewCount >= minViews)
  IN  slice(sort(kept, "influencers"), maxResults)

\* the search queries of a whole search, in the order they are made
searchQueries(keywords, originalTopic) ==
  searchModes(prioritizeKeywords(keywords, originalTopic)[1])

(***************************************************************************)
(* Initial state: an empty store, as on first load                         *)
(***************************************************************************)
Init ==
  /\ localStorage = <<>>
  /\ now = 0
  /\ upstream \in Worlds
  /\ svc = NoCall
  /\ last = NoOp
  /\ hist = NoHistory

\* the pool on its own: the platform plays no part
InitPool ==
  /\ Init
  /\ upstream = [k \in KeySecrets |-> IF k = S("AIzaSyA1x") THEN "quotaExceeded" ELSE "ok"]

(***************************************************************************)
(* Credential pool operations (settings modal and callers of the pool)     *)
(***************************************************************************)
AddKey(key) ==
  /\ Len(getSettings(localStorage).youtubeApiKeys) < MaxKeys
  /\ localStorage' = addYouTubeApiKey(localStorage, freshId(localStorage), key)
  /\ last' = NoOp
  /\ hist' = [hist EXCEPT !.stored = <<>>]
  /\ svc' = settled(svc)
  /\ UNCHANGED <<now, upstream>>

RemoveKey(keyId) ==
  /\ localStorage' = removeYouTubeApiKey(localStorage, keyId)
  /\ last' = NoOp
  /\ hist' = IF keysOf(getSettings(localStorage')) = keysOf(getSettings(localStorage)) THEN hist
              ELSE [hist EXCEPT !.stored = <<>>]
  /\ svc' = settled(svc)
  /\ UNCHANGED <<now, upstream>>

SwitchToNextKey ==
  /\ last' = [NoOp EXCEPT !.op = "switchToNextKey", !.ret = switchToNextKey(localStorage)[1]]
  /\ localStorage' = switchToNextKey(localStorage)[2]
  /\ UNCHANGED <<now, upstream, svc, hist>>

MarkKeyAsExhausted(keyId, error) ==
  /\ last' = [NoOp EXCEPT !.op = "markKeyAsExhausted"]
  /\ localStorage' = markKeyAsExhausted(localStorage, keyId, error)
  /\ UNCHANGED <<now, upstream, svc, hist>>

UpdateKeyUsage(keyId, quotaUsed) ==
  /\ last' = [NoOp EXCEPT !.op = "updateKeyUsage"]
  /\ localStorage' = updateKeyUsage(localStorage, keyId, quotaUsed)
  /\ UNCHANGED <<now, upstream, svc, hist>>

NextPool ==
  \/ \E key \in PoolSecrets : AddKey(key)
  \/ \E keyId \in idInputs(localStorage) : RemoveKey(keyId)
  \/ SwitchToNextKey
  \/ \E keyId \in idInputs(localStorage), error \in FailureClasses : MarkKeyAsExhausted(keyId, error)
  \/ \E keyId \in idInputs(localStorage), quotaUsed \in QuotaInputs : UpdateKeyUsage(keyId, quotaUsed)

\* the credential pool alone
SpecPool == InitPool /\ [][NextPool]_vars

(***************************************************************************)
(* Loading settings stored in the legacy single-key format. getSettings    *)
(* and saveSettings call each other here, so the two are followed call by  *)
(* call: last holds the innermost call and what it is about to hand on.    *)
(* The calls below the innermost one are all alike and are not kept.       *)
(***************************************************************************)
\* parsed.youtubeApiKey && !parsed.youtubeApiKeys
isLegacy(ls) ==
  /\ STORAGE_KEY \in DOMAIN ls
  /\ "youtubeApiKeys" \notin DOMAIN ls[STORAGE_KEY]
  /\ ls[STORAGE_KEY].youtubeApiKey # <<>>

\* migratedSettings of getSettings
migratedSettings(parsed) ==
  [youtubeApiKeys |-> << [id |-> "legacy-key", key |-> parsed.youtubeApiKey,
                          status |-> "active", quotaUsed |-> 0, quotaLimit |-> QUOTA_LIMIT,
                          lastError |-> NoError, lastUsed |-> NoTime] >>,
   currentKeyIndex |-> 0]

\* a call of getSettings or saveSettings has not returned
loading == last.op \in {"getSettings", "saveSettings"}

\* getSettings is called, by a caller of the service or by saveSettings for
\* its previousSettings: settings in the new format (or the defaults) are
\* returned; settings in the legacy format are migrated, and getSettings is
\* about to call saveSettings(migratedSettings)
GetSettings ==
  /\ last.op # "getSettings"
  /\ last.op = "saveSettings" => isLegacy(localStorage)
  /\ last' = IF isLegacy(localStorage)
               THEN [op |-> "getSettings",
                     ret |-> migratedSettings(localStorage[STORAGE_KEY])]
               ELSE [op |-> "getSettings returned", ret |-> getSettings(localStorage)]
  /\ UNCHANGED <<localStorage, now, upstream, svc, hist>>

\* saveSettings(migratedSettings) is entered: before it writes anything it is
\* about to call getSettings for previousSettings
SaveSettings ==
  /\ last.op = "getSettings"
  /\ last' = [op |-> "saveSettings", ret |-> last.ret]
  /\ UNCHANGED <<localStorage, now, upstream, svc, hist>>

\* the store at page load: empty, or written by a version with a single key,
\* with or without a search result cached by that version
InitLoad ==
  /\ localStorage \in
       {<<>>} \cup
       {(STORAGE_KEY :> [youtubeApiKey |-> key]) @@ cache :
          key \in KeySecrets,
          cache \in {<<>>, (SEARCH_PREFIX \o S("1x2y3z")) :> [data |-> <<>>, expiry |-> CACHE_TTL_MS]}}
  /\ now = 0
  /\ upstream = [k \in KeySecrets |-> IF k = S("AIzaSyA1x") THEN "quotaExceeded" ELSE "ok"]
  /\ svc = NoCall
  /\ last = NoOp
  /\ hist = NoHistory

NextLoad ==
  \/ GetSettings
  \/ SaveSettings
  \/ ~isLegacy(localStorage) /\ ~loading /\ NextPool

\* the pool with the settings as a page load finds them; a call that can go
\* on does go on
SpecLoad == InitLoad /\ [][NextLoad]_vars /\ WF_vars(GetSettings) /\ WF_vars(SaveSettings)

(***************************************************************************)
(* Searches: the service called directly, and the search of the app        *)
(***************************************************************************)
\* the arguments and the credential of a search, as history remembers them
queryOf(keywords, filters, apiKey) == <<keywords, filters, apiKey>>

\* generateCacheKey('search', ...) for the queries the searches are made with,
\* computed once
searchCacheKeys ==
  [query \in {queryOf(<<topic>>, filters, apiKey) :
                topic \in Topics, filters \in FilterSets, apiKey \in KeySecrets} |->
     generateCacheKey(S("search"), query[1], query[2], getApiKeyHash(query[3]))]

searchCacheKey(keywords, filters, apiKey) ==
  IF queryOf(keywords, filters, apiKey) \in DOMAIN searchCacheKeys
    THEN searchCacheKeys[queryOf(keywords, filters, apiKey)]
    ELSE generateCacheKey(S("search"), keywords, filters, getApiKeyHash(apiKey))

\* history: the query has just stored its result
recordStored(h, query, cacheKey, result) ==
  [h EXCEPT !.stored = (query :> [cacheKey |-> cacheKey, result |-> result, at |-> now,
                                   evicted |-> FALSE]) @@ @]

\* history: an explicit eviction has left the store ls2
markEvicted(h, ls2) ==
  [h EXCEPT !.stored = [query \in DOMAIN @ |->
     IF @[query].cacheKey \in DOMAIN ls2 THEN @[query] ELSE [@[query] EXCEPT !.evicted = TRUE]]]

\* history: what was stored a cache lifetime ago or earlier is forgotten
forgetOld(h, time) ==
  [h EXCEPT !.stored = [query \in {q \in DOMAIN @ : time - @[q].at < CACHE_TTL_MS} |-> @[query]]]

\* history: one more search has been started
countSearch(h) == [h EXCEPT !.searches = @ + 1]

\* a search that has returned to its caller
returned(apiKey, keywords, filters, hit, servedFrom, calls, failures, outcome, result) ==
  [pc |-> "returned", apiKey |-> apiKey, keywords |-> keywords, filters |-> filters,
   hit |-> hit, servedFrom |-> servedFrom, calls |-> calls, failures |-> failures,
   outcome |-> outcome, result |-> result]

\* YouTubeService.searchInfluencers up to its first request: the cache is
\* consulted, and what it holds (an empty list too) is returned
enterSearchInfluencers(ls, apiKey, keywords, filters, originalTopic) ==
  LET cacheKey == searchCacheKey(keywords, filters, apiKey)
      cached == getFromCache(ls, cacheKey)
  IN  /\ localStorage' = cached[2]
      /\ svc' = IF cached[1] # CacheMiss
                  THEN returned(apiKey, keywords, filters, TRUE, cached[1].query, 0, 0, "ok",
                                cached[1].data)
                  ELSE [pc |-> "requesting", apiKey |-> apiKey, keywords |-> keywords,
                        filters |-> filters, originalTopic |-> originalTopic,
                        cacheKey |-> cacheKey, removedExpired |-> cached[2] # ls]

\* a caller of the service searches with the pool's current key
SearchInfluencers(keywords, filters, originalTopic) ==
  /\ svc.pc \notin InFlight
  /\ hist.searches < MaxSearches
  /\ keywords # <<>>
  /\ getCurrentYouTubeApiKey(localStorage) # NoKey
  /\ enterSearchInfluencers(localStorage, getCurrentYouTubeApiKey(localStorage),
                            keywords, filters, originalTopic)
  /\ hist' = countSearch(hist)
  /\ UNCHANGED <<now, upstream, last>>

\* a || b on a number
orDefault(value, default) == IF value = 0 THEN default ELSE value

\* App.handleSearch up to the first request of api.searchInfluencers: the forced
\* refresh, the check of the key, the filters and the entry into the service
HandleSearch(topic, filters) ==
  LET refreshed == removeItems(localStorage, {key \in DOMAIN localStorage :
                     \/ includes(key, toLowerCase(topic))
                     \/ startsWith(key, SEARCH_PREFIX)
                     \/ startsWith(key, KEYWORDS_PREFIX)})
      apiKey == getCurrentYouTubeApiKey(refreshed)
      searchFilters == [region |-> IF filters.region = <<>> THEN DefaultFilters.region ELSE filters.region,
                        minSubscribers |-> orDefault(filters.minSubscribers, DefaultFilters.minSubscribers),
                        minViews |-> orDefault(filters.minViews, DefaultFilters.minViews),
                        maxResults |-> orDefault(filters.maxResults, DefaultFilters.maxResults)]
  IN  /\ svc.pc \notin InFlight
      /\ hist.searches < MaxSearches
      /\ IF apiKey = NoKey
           THEN /\ localStorage' = refreshed
                /\ svc' = returned(NoKey, <<topic>>, filters, FALSE, <<>>, 0, 0,
                                   "MISSING_YOUTUBE_KEY", <<>>)
           ELSE enterSearchInfluencers(refreshed, apiKey, <<topic>>, searchFilters, topic)
      /\ hist' = countSearch(markEvicted(hist, refreshed))
      /\ UNCHANGED <<now, upstream, last>>

\* the rest of YouTubeService.searchInfluencers: the loop over the search
\* queries, then the filter, the sort, the cut, the cache write and the return.
\* The requests of the loop use nothing but the call's own variables, so they
\* are taken together with the step that ends the call, where the clock and the
\* store are used again.
SearchInfluencersReturns ==
  /\ svc.pc = "requesting"
  /\ LET queries == searchQueries(svc.keywords, svc.originalTopic)
         maxResults == svc.filters.maxResults
         allChannels == searchLoop(svc.apiKey, queries, svc.filters.region,
                                   min(10, maxResults), svc.originalTopic, <<>>)
         results == rankInfluencers(allChannels, svc.filters.minSubscribers,
                                    svc.filters.minViews, maxResults)
         query == queryOf(svc.keywords, svc.filters, svc.apiKey)
         cachedStore == setCache(localStorage, svc.cacheKey, results, CACHE_TTL_MS)
     IN  /\ localStorage' = setItem(cachedStore, svc.cacheKey,
                              [data |-> cachedStore[svc.cacheKey].data,
                               expiry |-> cachedStore[svc.cacheKey].expiry,
                               query |-> query])
         /\ svc' = returned(svc.apiKey, svc.keywords, svc.filters, FALSE, query,
                            Len(queries),
                            Len(SelectSeq(queries, LAMBDA q : requestFails(svc.apiKey, q))),
                            "ok", results)
         /\ hist' = recordStored(hist, query, svc.cacheKey, results)
  /\ UNCHANGED <<now, upstream, last>>

\* SettingsService.forceClearAllCache, called on the store as it is
ForceClearAllCache ==
  /\ localStorage' = forceClearAllCache(localStorage)
  /\ hist' = markEvicted(hist, localStorage')
  /\ svc' = settled(svc)
  /\ UNCHANGED <<now, upstream, last>>

\* time passes
Tick ==
  /\ now < MaxTicks * TickMs
  /\ now' = now + TickMs
  /\ hist' = forgetOld(hist, now')
  /\ svc' = settled(svc)
  /\ UNCHANGED <<localStorage, upstream, last>>

Next ==
  \/ \E key \in KeySecrets : AddKey(key)
  \/ \E keyId \in idInputs(localStorage) : RemoveKey(keyId)
  \/ \E topic \in Topics, filters \in FilterSets : SearchInfluencers(<<topic>>, filters, topic)
  \/ \E topic \in Topics : HandleSearch(topic, DefaultFilters)
  \/ SearchInfluencersReturns
  \/ ForceClearAllCache
  \/ Tick

\* the store, the pool and the searches together
Spec == Init /\ [][Next]_vars

(***************************************************************************)
(* YouTubeService.searchVideos, and the two search modes together          *)
(***************************************************************************)
\* videos.forEach(...) on the allVideos map (kept in insertion order)
RECURSIVE mergeVideos(_, _)
mergeVideos(allVideos, videos) ==
  IF videos = <<>> THEN allVideos
  ELSE LET video == Head(videos)
           has == \E i \in 1..Len(allVideos) : allVideos[i].videoId = video.videoId
           merged ==
             IF ~has THEN Append(allVideos, video)
             ELSE [i \in 1..Len(allVideos) |->
                     IF allVideos[i].videoId = video.videoId
                       THEN [allVideos[i] EXCEPT !.relevanceScore = min(100, @ + 15)]
                       ELSE allVideos[i]]
       IN  mergeVideos(merged, Tail(videos))

\* videosFound for the searches the model makes, computed once
knownVideosFound ==
  [args \in {<<searchModes(topic)[i], filters.region, min(15, filters.maxResults), topic>> :
               topic \in Topics, filters \in FilterSets, i \in 1..Len(searchModeSuffixes)} |->
     videosFound(args[1], args[2], args[3], args[4])]

\* YouTubeService.searchVideosByKeyword: a request that is not answered ends
\* the call with the empty list
searchVideosByKeyword(apiKey, keyword, region, maxResults, originalTopic) ==
  IF requestFails(apiKey, keyword) THEN <<>>
  ELSE IF <<keyword, region, maxResults, originalTopic>> \in DOMAIN knownVideosFound
    THEN knownVideosFound[<<keyword, region, maxResults, originalTopic>>]
  ELSE videosFound(keyword, region, maxResults, originalTopic)

\* the loop over the search queries: each searchVideosByKeyword merged in turn
RECURSIVE videoSearchLoop(_, _, _, _, _, _)
videoSearchLoop(apiKey, queries, region, maxResults, originalTopic, allVideos) ==
  IF queries = <<>> THEN allVideos
  ELSE videoSearchLoop(apiKey, Tail(queries), region, maxResults, originalTopic,
                       mergeVideos(allVideos,
                         searchVideosByKeyword(apiKey, Head(queries), region, maxResults,
                                               originalTopic)))

\* the filter, the sort and the slice applied to the merged videos
rankVideos(allVideos, minViews, maxResults) ==
  slice(sort(SelectSeq(allVideos, LAMBDA video : video.viewCount >= minViews), "videos"),
        maxResults)

\* generateCacheKey('videos_search', ...) for the queries the searches are
\* made with, computed once
videoCacheKeys ==
  [query \in {queryOf(<<topic>>, filters, apiKey) :
                topic \in Topics, filters \in FilterSets, apiKey \in KeySecrets} |->
     generateCacheKey(S("videos_search"), query[1], query[2], getApiKeyHash(query[3]))]

videoCacheKey(keywords, filters, apiKey) ==
  IF queryOf(keywords, filters, apiKey) \in DOMAIN videoCacheKeys
    THEN videoCacheKeys[queryOf(keywords, filters, apiKey)]
    ELSE generateCacheKey(S("videos_search"), keywords, filters, getApiKeyHash(apiKey))

\* a video search that has returned to its caller
returnedVideos(apiKey, keywords, filters, hit, calls, failures, result) ==
  [pc |-> "returnedVideos", apiKey |-> apiKey, keywords |-> keywords, filters |-> filters,
   hit |-> hit, calls |-> calls, failures |-> failures, outcome |-> "ok", result |-> result]

\* YouTubeService.searchVideos up to its first request: a caller of the service
\* searches with the pool's current key, and the cache is consulted
SearchVideos(keywords, filters, originalTopic) ==
  LET apiKey == getCurrentYouTubeApiKey(localStorage)
      cacheKey == videoCacheKey(keywords, filters, apiKey)
      cached == getFromCache(localStorage, cacheKey)
  IN  /\ svc.pc \notin InFlight
      /\ hist.searches < MaxSearches
      /\ keywords # <<>>
      /\ apiKey # NoKey
      /\ localStorage' = cached[2]
      /\ svc' = IF cached[1] # CacheMiss
                  THEN returnedVideos(apiKey, keywords, filters, TRUE, 0, 0, cached[1].data)
                  ELSE [pc |-> "requestingVideos", apiKey |-> apiKey, keywords |-> keywords,
                        filters |-> filters, originalTopic |-> originalTopic,
                        cacheKey |-> cacheKey, removedExpired |-> cached[2] # localStorage]
      /\ hist' = countSearch(hist)
      /\ UNCHANGED <<now, upstream, last>>

\* the rest of YouTubeService.searchVideos: the loop over the search queries,
\* then the filter, the sort, the cut, the cache write and the return
SearchVideosReturns ==
  /\ svc.pc = "requestingVideos"
  /\ LET queries == searchModes(svc.keywords[1])
         maxResults == svc.filters.maxResults
         allVideos == videoSearchLoop(svc.apiKey, queries, svc.filters.region,
                                      min(15, maxResults), svc.originalTopic, <<>>)
         results == rankVideos(allVideos, svc.filters.minViews, maxResults)
     IN  /\ localStorage' = setCache(localStorage, svc.cacheKey, results, CACHE_TTL_MS)
         /\ svc' = returnedVideos(svc.apiKey, svc.keywords, svc.filters, FALSE, Len(queries),
                     Len(SelectSeq(queries, LAMBDA q : requestFails(svc.apiKey, q))), results)
  /\ UNCHANGED <<now, upstream, last, hist>>

\* the platform answers every request, or is unsteady for the first key
ModeWorlds ==
  { [k \in KeySecrets |-> "ok"],
    [k \in KeySecrets |-> IF k = S("AIzaSyA1x") THEN "unsteady" ELSE "ok"] }

\* the topic searched in both modes
ModeTopics == {S("acme")}

InitModes ==
  /\ localStorage = <<>>
  /\ now = 0
  /\ upstream \in ModeWorlds
  /\ svc = NoCall
  /\ last = NoOp
  /\ hist = NoHistory

NextModes ==
  \/ \E key \in PoolSecrets : AddKey(key)
  \/ \E keyId \in idInputs(localStorage) : RemoveKey(keyId)
  \/ \E topic \in ModeTopics : SearchInfluencers(<<topic>>, DefaultFilters, topic)
  \/ \E topic \in ModeTopics : SearchVideos(<<topic>>, DefaultFilters, topic)
  \/ SearchInfluencersReturns
  \/ SearchVideosReturns
  \/ Tick

\* channel searches and video searches of one service, with the pool
SpecModes == InitModes /\ [][NextModes]_vars

(***************************************************************************)
(* Credential pool claims                                                  *)
(***************************************************************************)
poolKeys(ls) == getSettings(ls).youtubeApiKeys

\* the stored credential with the given id
keyById(ls, keyId) == poolKeys(ls)[findIndex(poolKeys(ls), keyId)]

\* every stored credential but keyId is the same before and after
othersUnchanged(ls, ls2, keyId) ==
  /\ Len(poolKeys(ls2)) = Len(poolKeys(ls))
  /\ \A i \in 1..Len(poolKeys(ls)) :
       poolKeys(ls)[i].id # keyId => poolKeys(ls2)[i] = poolKeys(ls)[i]

\* C5: rotate() (switchToNextKey) returns true and makes the current credential
\* an active credential different from the previous current one whenever some
\* credential other than the current one is active (also when the current one
\* has just been marked exhausted); otherwise it returns false and leaves the
\* pool unchanged.
C5_RotateFindsAlternative ==
  [][SwitchToNextKey =>
       LET pre == getSettings(localStorage)
           post == getSettings(localStorage')
           alternative == \E i \in 1..Len(pre.youtubeApiKeys) :
                             /\ i # pre.currentKeyIndex + 1
                             /\ pre.youtubeApiKeys[i].status = "active"
       IN  IF alternative
             THEN /\ last'.ret = TRUE
                  /\ post.currentKeyIndex # pre.currentKeyIndex
                  /\ post.youtubeApiKeys[post.currentKeyIndex + 1].status = "active"
             ELSE /\ last'.ret = FALSE
                  /\ localStorage' = localStorage]_vars

\* C6: after any sequence of pool operations, current() (getCurrentYouTubeApiKey)
\* returns an active credential whenever at least one credential of the pool is
\* active, and reports none only when no credential is active.
C6_CurrentActiveWheneverAnyActive ==
  hasRequiredKeys(localStorage) <=> getCurrentYouTubeApiKey(localStorage) # NoKey

\* C7: recordFailure(id, e) (markKeyAsExhausted) moves the credential to error on
\* QuotaExceeded and to exhausted on InvalidCredential, so that the two failure
\* classes leave distinguishable statuses, stores e as lastError and changes no
\* other credential.
C7_FailureClassesDistinguished ==
  [][\A keyId \in storedIds(localStorage), error \in FailureClasses :
       MarkKeyAsExhausted(keyId, error) =>
         /\ keyById(localStorage', keyId).status =
              (IF error = "QuotaExceeded" THEN "error" ELSE "exhausted")
         /\ keyById(localStorage', keyId).lastError = error
         /\ othersUnchanged(localStorage, localStorage', keyId)]_vars

\* C8: after recordUsage (updateKeyUsage) for a credential, its status is
\* exhausted if its quotaUsed is at least 95% of its quotaLimit and otherwise the
\* status it had before; the status of every other credential is unchanged.
C8_UsageExhaustsAt95Percent ==
  [][\A keyId \in storedIds(localStorage), quotaUsed \in QuotaInputs :
       UpdateKeyUsage(keyId, quotaUsed) =>
         LET before == keyById(localStorage, keyId)
             after == keyById(localStorage', keyId)
         IN  /\ after.status =
                  (IF after.quotaUsed * 100 >= after.quotaLimit * 95
                     THEN "exhausted" ELSE before.status)
             /\ \A i \in 1..Len(poolKeys(localStorage)) :
                  /\ Len(poolKeys(localStorage')) = Len(poolKeys(localStorage))
                  /\ poolKeys(localStorage)[i].id # keyId =>
                       poolKeys(localStorage')[i].status = poolKeys(localStorage)[i].status]_vars

\* C8 witness: updateKeyUsage has just exhausted a credential that no failure
\* had been recorded for, while another credential stayed active
C8_Witness ==
  /\ last.op = "updateKeyUsage"
  /\ \E i, j \in 1..Len(poolKeys(localStorage)) :
       /\ poolKeys(localStorage)[i].status = "exhausted"
       /\ poolKeys(localStorage)[i].lastError = NoError
       /\ poolKeys(localStorage)[i].quotaUsed * 100 >= poolKeys(localStorage)[i].quotaLimit * 95
       /\ poolKeys(localStorage)[j].status = "active"
       /\ poolKeys(localStorage)[j].quotaUsed > 0

\* C9 as stated: recordUsage(id, unitsConsumed) increments quotaUsed, so that
\* afterwards quotaUsed is the previous quotaUsed plus unitsConsumed and quotaUsed
\* never decreases.
C9_UsageIncrements ==
  [][\A keyId \in storedIds(localStorage), quotaUsed \in QuotaInputs :
       UpdateKeyUsage(keyId, quotaUsed) =>
         /\ keyById(localStorage', keyId).quotaUsed =
              keyById(localStorage, keyId).quotaUsed + quotaUsed
         /\ keyById(localStorage', keyId).quotaUsed >= keyById(localStorage, keyId).quotaUsed]_vars

\* C9 as amended: updateKeyUsage(id, quotaUsed) stores its argument as the
\* credential's quotaUsed, whatever the stored value was (so quotaUsed can
\* decrease), and leaves the quotaUsed of every other credential alone.
C9_UsageIsStored ==
  [][\A keyId \in storedIds(localStorage), quotaUsed \in QuotaInputs :
       UpdateKeyUsage(keyId, quotaUsed) =>
         /\ keyById(localStorage', keyId).quotaUsed = quotaUsed
         /\ \A i \in 1..Len(poolKeys(localStorage)) :
              /\ Len(poolKeys(localStorage')) = Len(poolKeys(localStorage))
              /\ poolKeys(localStorage)[i].id # keyId =>
                   poolKeys(localStorage')[i].quotaUsed = poolKeys(localStorage)[i].quotaUsed]_vars

\* C9 witness: a credential exhausted by its usage now stores a smaller usage:
\* a later updateKeyUsage lowered its quotaUsed
C9_Witness ==
  /\ last.op = "updateKeyUsage"
  /\ \E i \in 1..Len(poolKeys(localStorage)) :
       /\ poolKeys(localStorage)[i].status = "exhausted"
       /\ poolKeys(localStorage)[i].lastError = NoError
       /\ poolKeys(localStorage)[i].quotaUsed * 100 < poolKeys(localStorage)[i].quotaLimit * 95
       /\ poolKeys(localStorage)[i].quotaUsed > 0

\* C22: credential status is terminal once it leaves active: after a
\* credential's status has become exhausted or error, no sequence of
\* recordUsage (updateKeyUsage), recordFailure (markKeyAsExhausted) and rotate
\* (switchToNextKey) calls ever sets it back to active.
C22_StatusIsTerminal ==
  [][last'.op \in {"updateKeyUsage", "markKeyAsExhausted", "switchToNextKey"}
       => \A i \in 1..Len(poolKeys(localStorage)) :
            poolKeys(localStorage)[i].status # "active"
              => /\ Len(poolKeys(localStorage')) = Len(poolKeys(localStorage))
                 /\ poolKeys(localStorage')[i].id = poolKeys(localStorage)[i].id
                 /\ poolKeys(localStorage')[i].status # "active"]_vars

\* C22 witness: a credential that a recorded failure took out of use has since
\* had a usage far below its limit recorded, and is still out of use
C22_Witness ==
  /\ last.op = "updateKeyUsage"
  /\ \E i \in 1..Len(poolKeys(localStorage)) :
       /\ poolKeys(localStorage)[i].status # "active"
       /\ poolKeys(localStorage)[i].lastError # NoError
       /\ poolKeys(localStorage)[i].quotaUsed > 0
       /\ poolKeys(localStorage)[i].quotaUsed * 100 < poolKeys(localStorage)[i].quotaLimit * 95

C27_CurrentIndexInRange ==
  LET settings == getSettings(localStorage)
  IN  IF settings.youtubeApiKeys = <<>>
        THEN settings.currentKeyIndex = 0
        ELSE /\ 0 <= settings.currentKeyIndex
             /\ settings.currentKeyIndex < Len(settings.youtubeApiKeys)

\* the first credential was removed and the one added after it is current
C27_Witness ==
  /\ Len(poolKeys(localStorage)) = 1
  /\ poolKeys(localStorage)[1].id = 2
  /\ getSettings(localStorage).currentKeyIndex = 0
  /\ last.op = "none"

returnedQuery == queryOf(svc.keywords, svc.filters, svc.apiKey)

\* the query a direct search with these arguments makes with the current key
currentQuery(topic, filters) == queryOf(<<topic>>, filters, getCurrentYouTubeApiKey(localStorage))

C2_NoSharedCacheEntry ==
  (svc.pc = "returned" /\ svc.hit) => svc.servedFrom = returnedQuery

\* C3: with a pool of two credentials where every call under the first fails
\* with QuotaExceeded and calls under the second succeed, a search returns the
\* results obtained under the second credential, and afterwards the first
\* credential's status is exhausted.
C3_FailoverToSecondCredential ==
  LET keys == poolKeys(localStorage)
  IN  (/\ svc.pc = "returned"
       /\ ~svc.hit
       /\ svc.outcome = "ok"
       /\ Len(keys) = 2
       /\ svc.apiKey = keys[1].key
       /\ upstream[keys[1].key] = "quotaExceeded"
       /\ upstream[keys[2].key] = "ok")
      => /\ svc.result =
              rankInfluencers(
                searchLoop(keys[2].key, searchQueries(svc.keywords, svc.keywords[1]),
                           svc.filters.region, min(10, svc.filters.maxResults),
                           svc.keywords[1], <<>>),
                svc.filters.minSubscribers, svc.filters.minViews, svc.filters.maxResults)
         /\ keys[1].status = "exhausted"

\* C4: when every platform call of a search fails because all credentials are
\* invalid or exhausted, the search returns a typed failure and not an empty
\* success.
C4_AllFailedIsTypedFailure ==
  (/\ svc.pc = "returned"
   /\ svc.calls > 0
   /\ svc.failures = svc.calls
   /\ \A i \in 1..Len(poolKeys(localStorage)) : upstream[poolKeys(localStorage)[i].key] # "ok")
  => svc.outcome # "ok"

\* the settings entry of a store (none when it is absent)
settingsEntry(ls) == IF STORAGE_KEY \in DOMAIN ls THEN <<ls[STORAGE_KEY]>> ELSE <<>>

\* C10: no cache-eviction path removes or alters the stored credential set:
\* clearRelatedCache, forceClearAllCache and the forced refresh at the start of
\* a search, for any topic, leave the settings entry exactly as it was.
C10_EvictionKeepsCredentials ==
  [][/\ settingsEntry(clearRelatedCache(localStorage)) = settingsEntry(localStorage)
     /\ ForceClearAllCache => settingsEntry(localStorage') = settingsEntry(localStorage)
     /\ (\E topic \in Topics : HandleSearch(topic, DefaultFilters))
          => settingsEntry(localStorage') = settingsEntry(localStorage)]_vars

(***************************************************************************)
(* Claims on the two search modes                                          *)
(***************************************************************************)
\* the keys under which search results are cached: channel mode and video mode
VIDEOS_SEARCH_PREFIX == S("videos_search_")
isSearchResultKey(key) == startsWith(key, SEARCH_PREFIX) \/ startsWith(key, VIDEOS_SEARCH_PREFIX)

\* C11: after any operation that changes the stored credential set (a credential
\* is added, removed or replaced), no search-result cache entry written before
\* the change, channel-mode or video-mode, remains in the cache.
C11_CredentialChangeClearsSearchCache ==
  [][keysOf(getSettings(localStorage')) # keysOf(getSettings(localStorage))
       => \A key \in DOMAIN localStorage \cap DOMAIN localStorage' : ~isSearchResultKey(key)]_vars


\* C12: every cache entry is written with an expiry strictly later than its
\* write time (30 minutes later for search results), and a cache read returns
\* the stored payload only while the current time has not passed the expiry; a
\* read after the expiry returns a miss and removes the entry.
C12_ExpiryGovernsCache ==
  [][/\ (svc.pc \in InFlight /\ svc'.pc \in Returned)
          => /\ svc.cacheKey \in DOMAIN localStorage'
             /\ localStorage'[svc.cacheKey].expiry = now + CACHE_TTL_MS
             /\ localStorage'[svc.cacheKey].expiry > now
     /\ (hist'.searches = hist.searches + 1)
          => LET key == IF svc'.pc \in {"requesting", "returned"}
                          THEN searchCacheKey(svc'.keywords, svc'.filters, svc'.apiKey)
                          ELSE videoCacheKey(svc'.keywords, svc'.filters, svc'.apiKey)
                 stored == key \in DOMAIN localStorage
             IN  /\ svc'.pc \in Returned <=> (stored /\ now <= localStorage[key].expiry)
                 /\ svc'.pc \in Returned
                      => /\ svc'.result = localStorage[key].data
                         /\ localStorage' = localStorage
                 /\ (stored /\ now > localStorage[key].expiry)
                      => /\ svc'.pc \in InFlight
                         /\ key \notin DOMAIN localStorage']_vars

\* C12 witness: a search in either mode has read its entry after the expiry,
\* was given a miss, and the entry is gone from the store
C12_Witness ==
  /\ svc.pc \in InFlight
  /\ svc.removedExpired
  /\ svc.cacheKey \notin DOMAIN localStorage
  /\ now > CACHE_TTL_MS


\* C13: in every list returned by a search, no two entries share the same
\* unique id (channelId in channel mode, videoId in video mode), whatever
\* overlap there is between the candidates of the individual query variants.
C13_NoDuplicateIds ==
  svc.pc \in Returned
    => \A i, j \in 1..Len(svc.result) :
         i # j => IF svc.pc = "returned"
                    THEN svc.result[i].channelId # svc.result[j].channelId
                    ELSE svc.result[i].videoId # svc.result[j].videoId

\* C13 witness: a channel search has returned, from its requests, a list of two
\* or more channels one of which was found by two different query variants
C13_Witness ==
  /\ svc.pc = "returned"
  /\ ~svc.hit
  /\ Len(svc.result) >= 2
  /\ LET found(i) == searchByKeyword(svc.apiKey, searchModes(svc.keywords[1])[i],
                                     svc.filters.region, min(10, svc.filters.maxResults),
                                     svc.keywords[1])
     IN  \E i, j \in 1..Len(searchModeSuffixes) :
           /\ i < j
           /\ \E a \in 1..Len(found(i)), b \in 1..Len(found(j)), k \in 1..Len(svc.result) :
                /\ found(i)[a].channelId = found(j)[b].channelId
                /\ svc.result[k].channelId = found(i)[a].channelId


\* C14: for every call to searchInfluencers with filters.minSubscribers = m,
\* whatever searches were made before it, no channel in the returned list has
\* subscriberCount < m.
C14_MinSubscribersHolds ==
  (svc.pc = "returned" /\ svc.outcome = "ok")
    => \A i \in 1..Len(svc.result) :
         svc.result[i].subscriberCount >= svc.filters.minSubscribers

\* C15: for every call to a search with filters.maxResults = n, whatever
\* searches were made before it, the returned list has at most n entries.
C15_AtMostMaxResults ==
  (svc.pc = "returned" /\ svc.outcome = "ok")
    => Len(svc.result) <= svc.filters.maxResults

\* C19: if the platform call for one query variant fails, the search is not
\* aborted: every remaining query variant is still issued, and the search
\* returns the merged candidates of the variants that succeeded.
C19_FailedVariantIsSkipped ==
  (svc.pc \in Returned /\ ~svc.hit)
    => LET queries == searchModes(svc.keywords[1])
           answered == SelectSeq(queries, LAMBDA q : ~requestFails(svc.apiKey, q))
           maxResults == svc.filters.maxResults
       IN  IF svc.pc = "returned"
             THEN svc.result =
                    rankInfluencers(searchLoop(svc.apiKey, answered, svc.filters.region,
                                               min(10, maxResults), svc.keywords[1], <<>>),
                                    svc.filters.minSubscribers, svc.filters.minViews, maxResults)
             ELSE svc.result =
                    rankVideos(videoSearchLoop(svc.apiKey, answered, svc.filters.region,
                                               min(15, maxResults), svc.keywords[1], <<>>),
                               svc.filters.minViews, maxResults)

\* C19 witness: a video search whose first query variant failed has returned
\* the videos found by the variants after it
C19_Witness ==
  /\ svc.pc = "returnedVideos"
  /\ ~svc.hit
  /\ requestFails(svc.apiKey, searchModes(svc.keywords[1])[1])
  /\ svc.failures < svc.calls
  /\ svc.result # <<>>

\* C23: no candidate whose relevance is at or below the relevance floor (0.5
\* on the 0-1 video relevance scale, i.e. 50 on the 0-100 scale) appears in a
\* list returned by a video-mode search.
C23_VideosAboveRelevanceFloor ==
  svc.pc = "returnedVideos"
    => \A i \in 1..Len(svc.result) : svc.result[i].relevanceScore > 50

\* C24: one search issues at most 5 platform text-search calls, one per intent
\* suffix of the single highest-priority keyword, and each of these calls
\* requests at most 15 results from the platform.
C24_FiveCallsOfFifteenResults ==
  (svc.pc \in Returned /\ ~svc.hit)
    => /\ svc.calls <= Len(searchModeSuffixes)
       /\ Len(searchModeSuffixes) <= 5
       /\ IF svc.pc = "returned"
            THEN requestedResults(min(10, svc.filters.maxResults)) <= 15
            ELSE min(15, svc.filters.maxResults) <= 15

\* C28: a channel search in which every platform call of every query variant
\* failed writes no cache entry, so that the same search repeated within 30
\* minutes calls the platform again instead of being served a cached empty list.
C28_AllFailedWritesNoEntry ==
  /\ (svc.pc = "returned" /\ ~svc.hit /\ svc.calls > 0 /\ svc.failures = svc.calls)
       => searchCacheKey(svc.keywords, svc.filters, svc.apiKey) \notin DOMAIN localStorage
  /\ (svc.pc = "returned" /\ svc.hit /\ upstream[svc.apiKey] # "ok"
        /\ upstream[svc.apiKey] # "unsteady")
       => svc.result # <<>>

(***************************************************************************)
(* The service's functions on their own: the arguments are drawn, then one *)
(* function is applied to them                                             *)
(***************************************************************************)
\* the sort and the slice of searchInfluencers on the drawn candidates
RankInfluencers ==
  /\ last.op = "candidates"
  /\ last' = [op |-> "rankInfluencers",
              ret |-> rankInfluencers(
                        [i \in 1..Len(last.ret) |->
                           [channelId |-> i, relevanceScore |-> last.ret[i].relevanceScore,
                            subscriberCount |-> last.ret[i].count, recentVideos |-> <<>>]],
                        0, 0, Len(last.ret))]
  /\ UNCHANGED <<localStorage, now, upstream, svc, hist>>

\* the sort and the slice of searchVideos on the drawn candidates
RankVideos ==
  /\ last.op = "candidates"
  /\ last' = [op |-> "rankVideos",
              ret |-> rankVideos(
                        [i \in 1..Len(last.ret) |->
                           [videoId |-> i, relevanceScore |-> last.ret[i].relevanceScore,
                            viewCount |-> last.ret[i].count]],
                        0, Len(last.ret))]
  /\ UNCHANGED <<localStorage, now, upstream, svc, hist>>

\* calculateRelevanceScore on the drawn channel, keyword and topic
CalculateRelevanceScore ==
  /\ last.op = "channel"
  /\ last' = [op |-> "calculateRelevanceScore", given |-> last,
              ret |-> calculateRelevanceScore(last.channelTitle, last.channelDescription,
                        last.searchKeyword, last.subscriberCount, last.recentVideos,
                        last.originalTopic)]
  /\ UNCHANGED <<localStorage, now, upstream, svc, hist>>

\* calculateVideoRelevanceScore on the drawn title and keyword
CalculateVideoRelevanceScore ==
  /\ last.op = "video"
  /\ last' = [op |-> "calculateVideoRelevanceScore", given |-> last,
              ret |-> calculateVideoRelevanceScore(last.videoTitle, last.searchKeyword)]
  /\ UNCHANGED <<localStorage, now, upstream, svc, hist>>

\* the channel just scored is found by two query variants and merged
MergeChannels ==
  /\ last.op = "calculateRelevanceScore"
  /\ LET channel == [channelId |-> "UCa", relevanceScore |-> last.ret]
     IN  last' = [op |-> "mergeChannels", given |-> last.ret,
                  ret |-> mergeChannels(mergeChannels(<<>>, <<channel>>), <<channel>>)]
  /\ UNCHANGED <<localStorage, now, upstream, svc, hist>>

\* the video just scored (its score times 100, rounded, as processVideoData
\* stores it) is found by two query variants and merged
MergeVideos ==
  /\ last.op = "calculateVideoRelevanceScore"
  /\ LET video == [videoId |-> "va1",
                   relevanceScore |-> (2 * 100 * last.ret.num + last.ret.den)
                                        \div (2 * last.ret.den)]
     IN  last' = [op |-> "mergeVideos", given |-> video.relevanceScore,
                  ret |-> mergeVideos(mergeVideos(<<>>, <<video>>), <<video>>)]
  /\ UNCHANGED <<localStorage, now, upstream, svc, hist>>

\* prioritizeKeywords on the drawn keyword list and topic
PrioritizeKeywords ==
  /\ last.op = "keywords"
  /\ last' = [op |-> "prioritizeKeywords", given |-> last,
              ret |-> prioritizeKeywords(last.keywords, last.originalTopic)]
  /\ UNCHANGED <<localStorage, now, upstream, svc, hist>>

\* api.searchInfluencers: the filters it hands to the service, each field
\* taken with || and its default (a field that is not there is undefined)
searchFilters(requestFilters) ==
  [name \in DOMAIN DefaultFilters |->
     IF name \notin DOMAIN requestFilters THEN DefaultFilters[name]
     ELSE IF name = "region"
       THEN IF requestFilters[name] = <<>> THEN DefaultFilters[name] ELSE requestFilters[name]
     ELSE orDefault(requestFilters[name], DefaultFilters[name])]

\* YouTubeService.searchInfluencers: the destructuring of filters, whose
\* defaults are taken for the fields that are undefined
destructureFilters(filters) ==
  [name \in DOMAIN DefaultFilters |->
     IF name \in DOMAIN filters THEN filters[name] ELSE DefaultFilters[name]]

\* api.searchInfluencers on the drawn filters, up to the values the search
\* of the service works with
ApiSearchInfluencers ==
  /\ last.op = "filters"
  /\ last' = [op |-> "api.searchInfluencers", given |-> last.filters,
              ret |-> destructureFilters(searchFilters(last.filters))]
  /\ UNCHANGED <<localStorage, now, upstream, svc, hist>>

\* OpenAIService.generateFallbackKeywords
generateFallbackKeywords(topic) ==
  LET words == split(toLowerCase(topic), 32)
      variations(word) ==
        IF Len(word) > 3
          THEN << word, word \o S(" tutorial"), word \o S(" review"), word \o S(" tips") >>
          ELSE <<>>
      RECURSIVE forEach(_, _)
      forEach(fallbackKeywords, rest) ==
        IF rest = <<>> THEN fallbackKeywords
        ELSE forEach(fallbackKeywords \o variations(Head(rest)), Tail(rest))
      commonSuffixes == << S("channel"), S("creator"), S("influencer"), S("vlog"), S("guide") >>
      fallbackKeywords ==
        forEach(<<toLowerCase(topic)>>, words)
          \o [i \in 1..Len(commonSuffixes) |-> toLowerCase(topic) \o S(" ") \o commonSuffixes[i]]
  IN  slice(fallbackKeywords, 8)

\* OpenAIService.expandKeywords for the drawn topic when nothing is cached for
\* it and the request to the AI service fails: the catch branch answers
ExpandKeywordsFails ==
  /\ last.op = "topic"
  /\ localStorage = <<>>
  /\ last' = [op |-> "expandKeywords", given |-> last.topic,
              ret |-> [originalTopic |-> last.topic,
                       expandedKeywords |-> generateFallbackKeywords(last.topic),
                       confidence |-> "0.5"]]
  /\ UNCHANGED <<localStorage, now, upstream, svc, hist>>

\* the service before a call, and the arguments of one function: merged
\* candidates (their scores and their subscriber or view counts) for the
\* sort; a channel, a keyword and a topic, or a video title and a keyword,
\* for the scores; a keyword list and a topic for the prioritisation; the
\* filters of a request, with any of their fields left out; a topic for the
\* keyword expansion
InitPure ==
  /\ localStorage = <<>>
  /\ now = 0
  /\ upstream \in Worlds
  /\ svc = NoCall
  /\ hist = NoHistory
  /\ LET Candidate == [relevanceScore : {50, 53, 56}, count : {1000, 2000, 3000}]
         Keywords == {S("acme"), S("acme review"), S("gadget test")}
         RecentVideos == {[i \in 1..n |-> [title |-> title]] :
                            n \in 0..(MaxLen + 1), title \in {S("Acme review"), S("my vlog")}}
     IN  \/ last \in {[op |-> "candidates", ret |-> candidates] :
                        candidates \in UNION {[1..n -> Candidate] : n \in 1..MaxLen}}
         \/ last \in {[op |-> "channel", channelTitle |-> channelTitle,
                       channelDescription |-> channelDescription,
                       searchKeyword |-> searchKeyword, subscriberCount |-> subscriberCount,
                       recentVideos |-> recentVideos, originalTopic |-> originalTopic] :
                        channelTitle \in {S("Acme Labs"), S("Gadget Hub")},
                        channelDescription \in {S("acme gadget reviews"), S("all about gadgets")},
                        searchKeyword \in Keywords,
                        subscriberCount \in {500, 5000, 50000, 500000, 5000000},
                        recentVideos \in RecentVideos,
                        originalTopic \in {<<>>, S("acme"), S("acme gadget")}}
         \/ last \in {[op |-> "video", videoTitle |-> videoTitle, searchKeyword |-> searchKeyword] :
                        videoTitle \in {VideoCatalogue[id].title : id \in DOMAIN VideoCatalogue}
                                         \cup {S("acme acme test"), S("Gadget-test review of acme")},
                        searchKeyword \in Keywords \cup {S("acme acme"), S("to")}}
         \/ last \in {[op |-> "keywords", keywords |-> keywords, originalTopic |-> originalTopic] :
                        keywords \in UNION {[1..n -> {S("Acme X200 review"), S("routers"),
                                                      S("acme x200"), S("x200 by acme"),
                                                      S("best ACME X200")}] : n \in 1..MaxLen},
                        originalTopic \in {<<>>, S("acme"), S("Acme X200")}}
         \/ \E supplied \in SUBSET DOMAIN DefaultFilters,
                values \in [region : {S("US"), S("GB")}, minSubscribers : {0, 5000},
                            minViews : {0, 500}, maxResults : {10}] :
              last = [op |-> "filters", filters |-> [name \in supplied |-> values[name]]]
         \/ last \in {[op |-> "topic", topic |-> topic] :
                        topic \in {S("acme"), S("Acme X200"), S("TV"), S("Smart Home automation"),
                                   S("wireless noise cancelling headphones for marathon runners")}}

NextPure ==
  \/ RankInfluencers
  \/ RankVideos
  \/ CalculateRelevanceScore
  \/ CalculateVideoRelevanceScore
  \/ MergeChannels
  \/ MergeVideos
  \/ PrioritizeKeywords
  \/ ApiSearchInfluencers
  \/ ExpandKeywordsFails

SpecPure == InitPure /\ [][NextPure]_vars

(***************************************************************************)
(* Claims on the service's functions                                       *)
(***************************************************************************)
\* C16: in every returned list, for any entry a placed before an entry b: b's
\* relevance score does not exceed a's by 5 or more, and if the two scores
\* differ by less than 5 then a's subscriber count (channel mode) or view
\* count (video mode) is greater than or equal to b's.
C16_OrderedByScoreThenCount ==
  last.op \in {"rankInfluencers", "rankVideos"}
    => LET count(entry) == IF last.op = "rankInfluencers" THEN entry.subscriberCount
                           ELSE entry.viewCount
       IN  \A i, j \in 1..Len(last.ret) :
             i < j => LET a == last.ret[i]
                          b == last.ret[j]
                      IN  /\ b.relevanceScore - a.relevanceScore < 5
                          /\ abs(b.relevanceScore - a.relevanceScore) < 5
                               => count(a) >= count(b)

\* C17: for all inputs, the channel relevance score computed without an
\* original topic is an integer in [0, 100], the score computed with the topic
\* bonus is an integer in [0, 120], and the video relevance score is in
\* [0, 1]; consequently every relevanceScore in a returned list, after
\* merging, lies in [0, 120].
C17_ScoresInRange ==
  /\ last.op = "calculateRelevanceScore"
       => /\ last.ret \in 0..120
          /\ last.given.originalTopic = <<>> => last.ret \in 0..100
  /\ last.op = "calculateVideoRelevanceScore"
       => /\ last.ret.den > 0
          /\ 0 <= last.ret.num
          /\ last.ret.num <= last.ret.den
  /\ last.op \in {"mergeChannels", "mergeVideos"}
       => \A i \in 1..Len(last.ret) : last.ret[i].relevanceScore \in 0..120

\* C17 witness: a channel matching on every count has been scored with the
\* topic bonus and the score is the upper limit
C17_Witness ==
  /\ last.op = "calculateRelevanceScore"
  /\ last.given.originalTopic # <<>>
  /\ Len(last.given.recentVideos) > MaxLen
  /\ last.given.subscriberCount > 1000000
  /\ last.ret = 120

\* C18: for every topic and keyword list, prioritizeKeywords returns a
\* permutation of the input list in which every keyword that contains the full
\* topic string (compared case-insensitively) is placed before every keyword
\* that does not contain it.
C18_TopicKeywordsFirst ==
  last.op = "prioritizeKeywords"
    => LET keywords == last.given.keywords
           containsTopic(keyword) ==
             includes(toLowerCase(keyword), toLowerCase(last.given.originalTopic))
       IN  /\ Len(last.ret) = Len(keywords)
           /\ \A i \in 1..Len(keywords) :
                Cardinality({j \in 1..Len(last.ret) : last.ret[j] = keywords[i]})
                  = Cardinality({j \in 1..Len(keywords) : keywords[j] = keywords[i]})
           /\ \A i, j \in 1..Len(last.ret) :
                (containsTopic(last.ret[i]) /\ ~containsTopic(last.ret[j])) => i < j

\* C18 witness: a list in which a keyword without the topic came before a
\* keyword with the topic (in other letter case) has been prioritised
C18_Witness ==
  /\ last.op = "prioritizeKeywords"
  /\ last.given.originalTopic = S("Acme X200")
  /\ Len(last.given.keywords) = MaxLen
  /\ last.given.keywords[1] = S("x200 by acme")
  /\ last.given.keywords[2] = S("best ACME X200")
  /\ last.ret[1] # last.given.keywords[1]

\* C20: filter defaults (US, 1000, 10000, 50) are applied only to fields that
\* are absent: a filter value explicitly supplied by the caller, including
\* minSubscribers = 0 or minViews = 0, reaches the search unchanged.
C20_DefaultsOnlyForAbsentFields ==
  last.op = "api.searchInfluencers"
    => \A name \in DOMAIN DefaultFilters :
         last.ret[name] = IF name \in DOMAIN last.given THEN last.given[name]
                          ELSE DefaultFilters[name]

\* C21: when a candidate already present in the merge map is returned again by
\* a later query variant, its accumulated relevanceScore is raised by the
\* fixed increment (15, up to the upper clamp) rather than overwritten, and is
\* never lower after the rediscovery than it was before.
C21_RediscoveryRaisesScore ==
  last.op \in {"mergeChannels", "mergeVideos"}
    => /\ Len(last.ret) = 1
       /\ \/ last.ret[1].relevanceScore = last.given + 15
          \/ last.ret[1].relevanceScore \in {100, 120}
       /\ last.ret[1].relevanceScore >= last.given

\* C25: when the AI keyword-expansion call fails, expandKeywords does not
\* fail: it returns a non-empty keyword list whose first entry is the
\* lower-cased topic, with at most 15 entries, each entry lower-cased and at
\* most 50 characters long.
C25_FallbackKeywordsWellFormed ==
  last.op = "expandKeywords"
    => LET expandedKeywords == last.ret.expandedKeywords
       IN  /\ expandedKeywords # <<>>
           /\ expandedKeywords[1] = toLowerCase(last.given)
           /\ Len(expandedKeywords) <= 15
           /\ \A i \in 1..Len(expandedKeywords) :
                /\ expandedKeywords[i] = toLowerCase(expandedKeywords[i])
                /\ Len(expandedKeywords[i]) <= 50
\* C29: the comparison of the final sort is a consistent (transitive) ordering,
\* and the final order depends on the candidates alone: the same candidates
\* presented in any other order are sorted into the same sequence of
\* (relevanceScore, subscriber or view count) pairs.
C29_OrderIndependentOfInput ==
  last.op \in {"rankInfluencers", "rankVideos"}
    => LET n == Len(last.ret)
           comparefn == IF last.op = "rankInfluencers" THEN "influencers" ELSE "videos"
           count(entry) == IF last.op = "rankInfluencers" THEN entry.subscriberCount
                           ELSE entry.viewCount
           pairs(list) == [i \in 1..Len(list) |-> <<list[i].relevanceScore, count(list[i])>>]
           sorted(list) == IF last.op = "rankInfluencers" THEN rankInfluencers(list, 0, 0, n)
                           ELSE rankVideos(list, 0, n)
       IN  /\ \A a, b, c \in {last.ret[i] : i \in 1..n} :
                (compare(comparefn, a, b) <= 0 /\ compare(comparefn, b, c) <= 0)
                  => compare(comparefn, a, c) <= 0
           /\ \A p \in Permutations(1..n) :
                pairs(sorted([i \in 1..n |-> last.ret[p[i]]])) = pairs(last.ret)

====
